---------------------------- MODULE Spec2Model ----------------------------
(***************************************************************************)
(* Model of the security-response-automation entry points (package exec)   *)
(* and of the remove-non-org-members rule (package removenonorgmembers).   *)
(*                                                                         *)
(* Strings are TLA+ strings; an error value is the chain of its messages,  *)
(* outermost first (the empty chain is Go's nil error).                    *)
(***************************************************************************)
EXTENDS Integers, Sequences, FiniteSets, TLC

VARIABLES
    conf,            \* ent.Configuration.RemoveNonOrgMembers: [Enabled, AllowDomains]
    orgDisplayName,  \* DisplayName of the organization kept by the resource manager
    orgPolicy,       \* IAM policy of the organization kept by the resource manager
    inv,             \* per invocation of Execute: its position and locals
    fnArgs,          \* arguments of the pure function under test
    fnPhase,         \* which applications have been made on fnArgs
    fnOut,           \* results of those applications
    env,             \* process environment: folder_ids, disallowed
    run              \* outcome of the last entry point invocation

vars == <<conf, orgDisplayName, orgPolicy, inv, fnArgs, fnPhase, fnOut, env, run>>

execVars == <<conf, orgDisplayName, orgPolicy, inv>>
fnVars == <<fnArgs, fnPhase, fnOut>>
entryVars == <<env, run>>

-----------------------------------------------------------------------------
(* Bounds *)

\* Longest member list of a binding drawn as an input of filterNonOrgMembers.
MaxMembers == 2
\* Longest allow-list drawn as an input of filterNonOrgMembers.
MaxDomains == 2
\* Number of concurrent deliveries handled by Execute.
NumInvocations == 2

-----------------------------------------------------------------------------
(* Strings and errors *)

\* strings.HasPrefix
HasPrefix(s, prefix) ==
    /\ Len(s) >= Len(prefix)
    /\ SubSeq(s, 1, Len(prefix)) = prefix

\* strings.Contains: some offset of s where substr occurs (offset 0 for "").
Contains(s, substr) ==
    \E i \in 0..(Len(s) - Len(substr)) : SubSeq(s, i + 1, i + Len(substr)) = substr

\* The nil error.
Nil == <<>>

\* errors.Wrap / errors.Wrapf of github.com/pkg/errors: nil stays nil, otherwise
\* the message is put in front of the chain.
Wrap(err, msg) == IF err = Nil THEN Nil ELSE <<msg>> \o err

-----------------------------------------------------------------------------
(* removenonorgmembers: the membership diff *)

notFromOrg(member, prefix, content) ==
    HasPrefix(member, prefix) /\ ~Contains(member, content)

\* notWhitelisted that looks at the first domain only.
notWhitelistedFirstOnly(member, domains) ==
    IF domains = <<>> THEN TRUE ELSE ~Contains(member, domains[1])

\* notWhitelisted that skips an empty domain.
notWhitelistedSkipEmpty(member, domains) ==
    \A k \in 1..Len(domains) : domains[k] = "" \/ ~Contains(member, domains[k])

RECURSIVE notWhitelistedFrom(_, _, _)
\* The loop of notWhitelisted from index k on: false at the first domain found.
notWhitelistedFrom(member, domains, k) ==
    IF k > Len(domains) THEN TRUE
    ELSE IF Contains(member, domains[k]) THEN FALSE
    ELSE notWhitelistedFrom(member, domains, k + 1)

notWhitelisted(member, domains) == notWhitelistedFrom(member, domains, 1)

RECURSIVE filterMembers(_, _, _, _, _)
\* The inner loop of filterNonOrgMembers over b.Members from index k on,
\* appending to nonOrgMembers.
filterMembers(organizationDisplayName, members, allowedDomains, k, nonOrgMembers) ==
    IF k > Len(members) THEN nonOrgMembers
    ELSE LET m == members[k] IN
         filterMembers(organizationDisplayName, members, allowedDomains, k + 1,
            IF notFromOrg(m, "user:", organizationDisplayName) /\ notWhitelisted(m, allowedDomains)
            THEN Append(nonOrgMembers, m)
            ELSE nonOrgMembers)

RECURSIVE filterBindings(_, _, _, _, _)
\* The outer loop of filterNonOrgMembers over bindings from index k on.
filterBindings(organizationDisplayName, bindings, allowedDomains, k, nonOrgMembers) ==
    IF k > Len(bindings) THEN nonOrgMembers
    ELSE filterBindings(organizationDisplayName, bindings, allowedDomains, k + 1,
            filterMembers(organizationDisplayName, bindings[k].Members, allowedDomains, 1, nonOrgMembers))

\* filterNonOrgMembers that returns at the first member it selects.
filterNonOrgMembersFirstOnly(organizationDisplayName, bindings, allowedDomains) ==
    LET all == filterBindings(organizationDisplayName, bindings, allowedDomains, 1, <<>>)
    IN  IF all = <<>> THEN <<>> ELSE <<all[1]>>

filterNonOrgMembers(organizationDisplayName, bindings, allowedDomains) ==
    filterBindings(organizationDisplayName, bindings, allowedDomains, 1, <<>>)

-----------------------------------------------------------------------------
(* The resource manager behind ent.Resource *)

\* The organization the findings are about, and one the resource manager
\* does not know.
KnownOrganization == "organizations/1234"
UnknownOrganization == "organizations/9999"

Requireds == {[OrganizationName |-> n] : n \in {KnownOrganization, UnknownOrganization}}

\* Errors of the resource manager's API.
ErrNotFound == <<"googleapi: Error 404: not found">>
ErrUnavailable == <<"googleapi: Error 503: backend unavailable">>

NoOrganization == [Name |-> "", DisplayName |-> ""]
NoPolicy == [Bindings |-> <<>>]

\* A member is listed in remove.
Listed(m, remove) == \E k \in 1..Len(remove) : remove[k] = m

\* RemoveMembersOrganization's edit of the policy it is handed: every listed
\* member leaves every binding; roles and emptied bindings stay.
RemoveMembers(existing, remove) ==
    [existing EXCEPT !.Bindings =
        [k \in 1..Len(existing.Bindings) |->
            [existing.Bindings[k] EXCEPT !.Members =
                SelectSeq(existing.Bindings[k].Members, LAMBDA m : ~Listed(m, remove))]]]

\* One collaborator call as Execute's invocation made it.
Call(op, name, ok, remove, policy) ==
    [op |-> op, name |-> name, ok |-> ok, remove |-> remove, policy |-> policy]

-----------------------------------------------------------------------------
(* removenonorgmembers.Execute, one step per blocking collaborator call *)

Invocations == 1..NumInvocations

\* An invocation that has not started.
Fresh ==
    [pc |-> "start", required |-> [OrganizationName |-> ""],
     organization |-> NoOrganization, policy |-> NoPolicy,
     membersToRemove |-> <<>>, err |-> Nil, calls |-> <<>>]

\* The invocation returned err.
Return(i, rec, err) == inv' = [inv EXCEPT ![i] = [rec EXCEPT !.pc = "done", !.err = err]]

\* ExecuteGate that makes the Organization call whatever the Enabled flag says.
ExecuteGateUngated(i) ==
    /\ inv[i].pc = "start"
    /\ \E required \in Requireds :
        LET rec == [inv[i] EXCEPT !.required = required]
            name == required.OrganizationName
        IN  \/ /\ name = KnownOrganization
               /\ inv' = [inv EXCEPT ![i] = [rec EXCEPT
                        !.pc = "organization",
                        !.organization = [Name |-> name, DisplayName |-> orgDisplayName],
                        !.calls = Append(@, Call("Organization", name, TRUE, <<>>, NoPolicy))]]
            \/ /\ name = UnknownOrganization
               /\ Return(i, [rec EXCEPT !.calls =
                        Append(@, Call("Organization", name, FALSE, <<>>, NoPolicy))],
                    Wrap(ErrNotFound, "failed to get organization: " \o name))
    /\ UNCHANGED <<conf, orgDisplayName, orgPolicy, fnVars, entryVars>>

\* Execute up to the return of ent.Resource.Organization: the Enabled gate,
\* then the lookup of the organization of the finding.
ExecuteGate(i) ==
    /\ inv[i].pc = "start"
    /\ \E required \in Requireds :
        LET rec == [inv[i] EXCEPT !.required = required]
            name == required.OrganizationName
        IN  \/ /\ ~conf.Enabled
               /\ Return(i, rec, Nil)
            \/ /\ conf.Enabled
               /\ \/ /\ name = KnownOrganization
                     /\ inv' = [inv EXCEPT ![i] = [rec EXCEPT
                            !.pc = "organization",
                            !.organization = [Name |-> name, DisplayName |-> orgDisplayName],
                            !.calls = Append(@, Call("Organization", name, TRUE, <<>>, NoPolicy))]]
                  \/ /\ \E e \in IF name = KnownOrganization THEN {ErrUnavailable} ELSE {ErrNotFound} :
                        Return(i, [rec EXCEPT !.calls =
                                Append(@, Call("Organization", name, FALSE, <<>>, NoPolicy))],
                            Wrap(e, "failed to get organization: " \o name))
    /\ UNCHANGED <<conf, orgDisplayName, orgPolicy, fnVars, entryVars>>

\* ExecutePolicy that goes on with an empty policy when the fetch failed.
ExecutePolicyIgnoreError(i) ==
    /\ inv[i].pc = "organization"
    /\ \/ inv' = [inv EXCEPT ![i] = [@ EXCEPT
                !.pc = "policy",
                !.policy = orgPolicy,
                !.calls = Append(@, Call("PolicyOrganization", inv[i].organization.Name, TRUE, <<>>, orgPolicy))]]
       \/ inv' = [inv EXCEPT ![i] = [@ EXCEPT
                !.pc = "policy",
                !.policy = NoPolicy,
                !.calls = Append(@, Call("PolicyOrganization", inv[i].organization.Name, FALSE, <<>>, NoPolicy))]]
    /\ UNCHANGED <<conf, orgDisplayName, orgPolicy, fnVars, entryVars>>

\* Execute from the Organization result to the return of PolicyOrganization.
ExecutePolicy(i) ==
    /\ inv[i].pc = "organization"
    /\ \/ inv' = [inv EXCEPT ![i] = [@ EXCEPT
                !.pc = "policy",
                !.policy = orgPolicy,
                !.calls = Append(@, Call("PolicyOrganization", inv[i].organization.Name, TRUE, <<>>, orgPolicy))]]
       \/ Return(i, [inv[i] EXCEPT !.calls =
                    Append(@, Call("PolicyOrganization", inv[i].organization.Name, FALSE, <<>>, NoPolicy))],
                Wrap(ErrUnavailable, "failed to retrieve organization policies"))
    /\ UNCHANGED <<conf, orgDisplayName, orgPolicy, fnVars, entryVars>>

\* ExecuteRemove that returns without the update call when nothing is to be removed.
ExecuteRemoveSkipEmpty(i) ==
    /\ inv[i].pc = "policy"
    /\ LET membersToRemove == filterNonOrgMembers(inv[i].organization.DisplayName,
                                    inv[i].policy.Bindings, conf.AllowDomains)
           rec == [inv[i] EXCEPT !.membersToRemove = membersToRemove]
           call(ok) == Call("RemoveMembersOrganization", inv[i].organization.Name, ok,
                            membersToRemove, inv[i].policy)
       IN  \/ /\ membersToRemove = <<>>
              /\ Return(i, rec, Nil)
              /\ UNCHANGED orgPolicy
           \/ /\ membersToRemove # <<>>
              /\ orgPolicy' = RemoveMembers(inv[i].policy, membersToRemove)
              /\ Return(i, [rec EXCEPT !.calls = Append(@, call(TRUE))], Nil)
           \/ /\ membersToRemove # <<>>
              /\ UNCHANGED orgPolicy
              /\ Return(i, [rec EXCEPT !.calls = Append(@, call(FALSE))],
                    Wrap(ErrUnavailable, "failed to remove organization policies"))
    /\ UNCHANGED <<conf, orgDisplayName, fnVars, entryVars>>

\* Execute from the fetched policy to its return: the diff, then the one
\* update call that submits the diff with the fetched policy.
ExecuteRemove(i) ==
    /\ inv[i].pc = "policy"
    /\ LET membersToRemove == filterNonOrgMembers(inv[i].organization.DisplayName,
                                    inv[i].policy.Bindings, conf.AllowDomains)
           rec == [inv[i] EXCEPT !.membersToRemove = membersToRemove]
           call(ok) == Call("RemoveMembersOrganization", inv[i].organization.Name, ok,
                            membersToRemove, inv[i].policy)
       IN  \/ /\ orgPolicy' = RemoveMembers(inv[i].policy, membersToRemove)
              /\ Return(i, [rec EXCEPT !.calls = Append(@, call(TRUE))], Nil)
           \/ /\ UNCHANGED orgPolicy
              /\ Return(i, [rec EXCEPT !.calls = Append(@, call(FALSE))],
                    Wrap(ErrUnavailable, "failed to remove organization policies"))
    /\ UNCHANGED <<conf, orgDisplayName, fnVars, entryVars>>

\* The delivery layer hands the finding to a new invocation of Execute.
Redeliver(i) ==
    /\ inv[i].pc = "done"
    /\ inv' = [inv EXCEPT ![i] = Fresh]
    /\ UNCHANGED <<conf, orgDisplayName, orgPolicy, fnVars, entryVars>>

-----------------------------------------------------------------------------
(* Inputs of the Execute specification *)

Bob == "user:bob@example.com"
Eve == "user:eve@gmail.com"
Carl == "user:carl@contractor.example.com"
Team == "group:team@example.com"
Mal == "user:mal@evil.org"

Binding(role, members) == [Role |-> role, Members |-> members]

ExecPolicies ==
    { [Bindings |-> <<>>],
      [Bindings |-> <<Binding("roles/owner", <<Bob, Eve, Carl, Team>>)>>],
      [Bindings |-> <<Binding("roles/owner", <<Eve, Bob>>), Binding("roles/viewer", <<Mal, Eve>>)>>],
      [Bindings |-> <<Binding("roles/owner", <<Bob>>), Binding("roles/viewer", <<Team, Carl>>)>>] }

ExecAllowDomains == { <<>>, <<"contractor.example.com">>, <<"evil.org", "">> }

ExecDisplayNames == { "example.com" }

\* Values of the variables a specification does not use.
IdleFn == /\ fnArgs = [fn |-> "none"]
          /\ fnPhase = "idle"
          /\ fnOut = [fn |-> "none"]
IdleExec == /\ conf = [Enabled |-> FALSE, AllowDomains |-> <<>>]
            /\ orgDisplayName = ""
            /\ orgPolicy = NoPolicy
            /\ inv = [i \in {} |-> Fresh]
IdleEntry == /\ env = [folder_ids |-> "", disallowed |-> ""]
             /\ run = [fn |-> "none", calls |-> <<>>, err |-> Nil]

Init ==
    /\ conf \in [Enabled : BOOLEAN, AllowDomains : ExecAllowDomains]
    /\ orgDisplayName \in ExecDisplayNames
    /\ orgPolicy \in ExecPolicies
    /\ inv = [i \in Invocations |-> Fresh]
    /\ IdleFn
    /\ IdleEntry

Next ==
    \E i \in Invocations :
        \/ ExecuteGate(i)
        \/ ExecutePolicy(i)
        \/ ExecuteRemove(i)
        \/ Redeliver(i)

Spec == Init /\ [][Next]_vars

-----------------------------------------------------------------------------
(* removenonorgmembers.ReadFinding *)

\* Sentinel errors of package entities.
ErrUnmarshal == <<"failed to unmarshal">>
ErrValueNotFound == <<"value not found">>

\* The finding of a payload that carries none: the generated getters read
\* the zero value through the nil message.
NoFinding == [category |-> "", parent |-> ""]

Categories == {"NON_ORG_IAM_MEMBER", "PUBLIC_BUCKET_ACL", ""}
Parents == {"organizations/1234/sources/5678", "organizations/1234", "organizations/",
            "projects/p1/sources/5678", ""}

\* Payloads: text that is no JSON value, a JSON object whose category has the
\* wrong type, and objects of the expected schema.
Payloads ==
    {[json |-> j, finding |-> NoFinding] : j \in {"malformed", "mistyped", "object"}}
    \cup {[json |-> "object", finding |-> f] : f \in [category : Categories, parent : Parents]}

\* json.Unmarshal into the finding message.
Unmarshal(b) ==
    CASE b.json = "malformed" -> [err |-> <<"invalid character 'x' looking for beginning of value">>,
                                  finding |-> NoFinding]
      [] b.json = "mistyped" -> [err |-> <<"json: cannot unmarshal number into Go value of type string">>,
                                 finding |-> NoFinding]
      [] OTHER -> [err |-> Nil, finding |-> b.finding]

Digits == {"0", "1", "2", "3", "4", "5", "6", "7", "8", "9"}

RECURSIVE DigitsEnd(_, _)
\* The index of the last digit of the run of digits of s that starts after index k.
DigitsEnd(s, k) ==
    IF k < Len(s) /\ SubSeq(s, k + 1, k + 1) \in Digits THEN DigitsEnd(s, k + 1) ELSE k

\* sha.OrganizationName: the leading "organizations/<number>" of a resource
\* name, empty when the resource does not start with one.
OrganizationName(resource) ==
    LET prefix == "organizations/"
        last == DigitsEnd(resource, Len(prefix))
    IN  IF HasPrefix(resource, prefix) /\ last > Len(prefix)
        THEN SubSeq(resource, 1, last)
        ELSE ""

\* ReadFinding's result: r is the empty sequence for a nil *Required.
Result(r, err) == [r |-> r, err |-> err]

\* ReadFinding without the test for an empty OrganizationName.
ReadFindingNoEmptyTest(b) ==
    LET u == Unmarshal(b)
        name == IF u.finding.category = "NON_ORG_IAM_MEMBER"
                THEN OrganizationName(u.finding.parent)
                ELSE ""
    IN  IF u.err # Nil THEN Result(<<>>, Wrap(ErrUnmarshal, u.err[1]))
        ELSE Result(<<[OrganizationName |-> name]>>, Nil)

ReadFinding(b) ==
    LET u == Unmarshal(b)
        name == IF u.finding.category = "NON_ORG_IAM_MEMBER"
                THEN OrganizationName(u.finding.parent)
                ELSE ""
    IN  IF u.err # Nil THEN Result(<<>>, Wrap(ErrUnmarshal, u.err[1]))
        ELSE IF name = "" THEN Result(<<>>, ErrValueNotFound)
        ELSE Result(<<[OrganizationName |-> name]>>, Nil)

-----------------------------------------------------------------------------
(* The functions of removenonorgmembers applied to bounded inputs *)

MemberUniverse == {Eve, Mal, Carl, Team}
DomainUniverse == {"gmail.com", ""}
DisplayNames == {"example.com", ""}
RoleOrder == <<"roles/owner", "roles/viewer">>

\* Sequences over S of length at most n.
SeqUpTo(S, n) == UNION {[1..k -> S] : k \in 0..n}

\* Binding lists: one binding per role of a prefix of RoleOrder.
BindingLists ==
    UNION {{[k \in 1..n |-> Binding(RoleOrder[k], ms[k])] :
                ms \in [1..n -> SeqUpTo(MemberUniverse, MaxMembers)]} : n \in 0..Len(RoleOrder)}

\* The example of the specification: one owner binding, the contractor
\* domain allow-listed.
ExampleBindings == <<Binding("roles/owner", <<Bob, Eve, Carl, Team>>)>>
ExampleAllowDomains == <<"contractor.example.com">>

AllowLists == SeqUpTo(DomainUniverse, MaxDomains) \cup {ExampleAllowDomains}

InitFn ==
    /\ fnPhase = "args"
    /\ fnOut = [fn |-> "none"]
    /\ \/ fnArgs \in [fn : {"filterNonOrgMembers"},
                      organizationDisplayName : DisplayNames,
                      bindings : BindingLists \cup {ExampleBindings},
                      allowedDomains : AllowLists]
       \/ fnArgs \in [fn : {"ReadFinding"}, b : Payloads]
    /\ IdleExec
    /\ IdleEntry

\* filterNonOrgMembers is applied to the arguments.
ApplyFilter ==
    /\ fnPhase = "args"
    /\ fnArgs.fn = "filterNonOrgMembers"
    /\ fnPhase' = "filtered"
    /\ fnOut' = [fn |-> fnArgs.fn,
                 nonOrgMembers |-> filterNonOrgMembers(fnArgs.organizationDisplayName,
                                        fnArgs.bindings, fnArgs.allowedDomains)]
    /\ UNCHANGED <<fnArgs, execVars, entryVars>>

\* The diff is applied to the policy it was computed from.
ApplyRemove ==
    /\ fnPhase = "filtered"
    /\ fnPhase' = "removed"
    /\ fnOut' = [fn |-> fnArgs.fn,
                 nonOrgMembers |-> fnOut.nonOrgMembers,
                 policy |-> RemoveMembers([Bindings |-> fnArgs.bindings], fnOut.nonOrgMembers)]
    /\ UNCHANGED <<fnArgs, execVars, entryVars>>

\* ReadFinding is applied to the payload.
ApplyReadFinding ==
    /\ fnPhase = "args"
    /\ fnArgs.fn = "ReadFinding"
    /\ fnPhase' = "read"
    /\ fnOut' = [fn |-> fnArgs.fn, result |-> ReadFinding(fnArgs.b)]
    /\ UNCHANGED <<fnArgs, execVars, entryVars>>

NextFn == ApplyFilter \/ ApplyRemove \/ ApplyReadFinding

SpecFn == InitFn /\ [][NextFn]_vars

-----------------------------------------------------------------------------
(* Package exec: the Cloud Function entry points, each a whole handler *)

\* strings.Index for a one-character separator: 0 when sep is not in s.
RECURSIVE IndexFrom(_, _, _)
IndexFrom(s, sep, k) ==
    IF k > Len(s) THEN 0
    ELSE IF SubSeq(s, k, k) = sep THEN k
    ELSE IndexFrom(s, sep, k + 1)

RECURSIVE Split(_, _)
\* strings.Split(s, sep): the pieces between the separators, empty pieces kept.
Split(s, sep) ==
    LET k == IndexFrom(s, sep, 1)
    IN  IF k = 0 THEN <<s>>
        ELSE <<SubSeq(s, 1, k - 1)>> \o Split(SubSeq(s, k + 1, Len(s)), sep)

\* Values of the environment variables.
FolderIDsValues == {"", "111", "111,222"}
DisallowedValues == {"", "gmail.com", "gmail.com,evil.org,"}

\* Error of a client constructor or of the delegated cloud function.
ErrClient == <<"could not find default credentials">>
ErrDelegate == <<"failed to handle finding">>

\* fmt.Errorf: a new error of one message.
Errorf(msg) == <<msg>>

\* The handler ran: the calls it made on its collaborators, in order, and
\* the error it returned.
Ran(fn, calls, err) == run' = [fn |-> fn, calls |-> calls, err |-> err]

\* The calls every entry point starts with once its logger exists, and the
\* deferred l.Close() it ends with.
LoggerUp(msg) == <<"clients.NewLogger", "Logger.Info: " \o msg>>
LoggerClose == <<"Logger.Close">>

RevokeExternalGrantsFolders ==
    /\ \E failing \in {"none", "logger", "crm", "storage", "delegate"} :
        LET up == LoggerUp("Initializing external members IAM removal") IN
        IF failing = "logger"
        THEN Ran("RevokeExternalGrantsFolders", <<"clients.NewLogger">>,
                 Errorf("failed to initialize logger client: " \o ErrClient[1]))
        ELSE IF env.folder_ids = ""
        THEN Ran("RevokeExternalGrantsFolders", up \o LoggerClose,
                 Errorf("folder_ids environment variable not found"))
        ELSE IF env.disallowed = ""
        THEN Ran("RevokeExternalGrantsFolders", up \o LoggerClose,
                 Errorf("disallowed environment variable not found"))
        ELSE IF failing = "crm"
        THEN Ran("RevokeExternalGrantsFolders",
                 up \o <<"clients.NewCloudResourceManager">> \o LoggerClose,
                 Errorf("failed to initialize cloud resource manager client: " \o ErrClient[1]))
        ELSE IF failing = "storage"
        THEN Ran("RevokeExternalGrantsFolders",
                 up \o <<"clients.NewCloudResourceManager", "clients.NewStorage">> \o LoggerClose,
                 Errorf("failed to initialize storage client: " \o ErrClient[1]))
        ELSE Ran("RevokeExternalGrantsFolders",
                 up \o <<"clients.NewCloudResourceManager", "clients.NewStorage",
                         "cloudfunctions.RevokeExternalGrantsFolders">>
                    \o Split(env.folder_ids, ",") \o <<"|">> \o Split(env.disallowed, ",")
                    \o LoggerClose,
                 IF failing = "delegate" THEN ErrDelegate ELSE Nil)
    /\ UNCHANGED <<env, execVars, fnVars>>

SnapshotDisk ==
    /\ \E failing \in {"none", "logger", "crm", "storage", "compute", "delegate"} :
        LET up == LoggerUp("Initializing snapshot generation") IN
        IF failing = "logger"
        THEN Ran("SnapshotDisk", <<"clients.NewLogger">>,
                 Errorf("failed to initialize logger client: " \o ErrClient[1]))
        ELSE IF failing = "crm"
        THEN Ran("SnapshotDisk",
                 up \o <<"clients.NewCloudResourceManager">> \o LoggerClose,
                 Errorf("failed to initialize cloud resource manager client: " \o ErrClient[1]))
        ELSE IF failing = "storage"
        THEN Ran("SnapshotDisk",
                 up \o <<"clients.NewCloudResourceManager", "clients.NewStorage">> \o LoggerClose,
                 Errorf("failed to initialize storage client: " \o ErrClient[1]))
        ELSE IF failing = "compute"
        THEN Ran("SnapshotDisk",
                 up \o <<"clients.NewCloudResourceManager", "clients.NewStorage",
                         "clients.NewCompute">> \o LoggerClose,
                 Errorf("failed to initialize compute client: " \o ErrClient[1]))
        ELSE Ran("SnapshotDisk",
                 up \o <<"clients.NewCloudResourceManager", "clients.NewStorage",
                         "clients.NewCompute", "cloudfunctions.CreateSnapshot">> \o LoggerClose,
                 IF failing = "delegate" THEN ErrDelegate ELSE Nil)
    /\ UNCHANGED <<env, execVars, fnVars>>

CloseBucket ==
    /\ \E failing \in {"none", "logger", "crm", "storage", "delegate"} :
        LET up == LoggerUp("Initializing bucket public users removal") IN
        IF failing = "logger"
        THEN Ran("CloseBucket", <<"clients.NewLogger">>,
                 Errorf("failed to initialize logger client: " \o ErrClient[1]))
        ELSE IF env.folder_ids = ""
        THEN Ran("CloseBucket", up \o LoggerClose,
                 Errorf("folder_ids environment variable not found"))
        ELSE IF failing = "crm"
        THEN Ran("CloseBucket",
                 up \o <<"clients.NewCloudResourceManager">> \o LoggerClose,
                 Errorf("failed to initialize cloud resource manager client: " \o ErrClient[1]))
        ELSE IF failing = "storage"
        THEN Ran("CloseBucket",
                 up \o <<"clients.NewCloudResourceManager", "clients.NewStorage">> \o LoggerClose,
                 Errorf("failed to initialize storage client: " \o ErrClient[1]))
        ELSE Ran("CloseBucket",
                 up \o <<"clients.NewCloudResourceManager", "clients.NewStorage",
                         "cloudfunctions.CloseBucket">>
                    \o Split(env.folder_ids, ",") \o LoggerClose,
                 IF failing = "delegate" THEN ErrDelegate ELSE Nil)
    /\ UNCHANGED <<env, execVars, fnVars>>

InitEntry ==
    /\ env \in [folder_ids : FolderIDsValues, disallowed : DisallowedValues]
    /\ run = [fn |-> "none", calls |-> <<>>, err |-> Nil]
    /\ IdleExec
    /\ IdleFn

NextEntry == RevokeExternalGrantsFolders \/ SnapshotDisk \/ CloseBucket

SpecEntry == InitEntry /\ [][NextEntry]_vars

-----------------------------------------------------------------------------
(* Properties of the membership diff and of ReadFinding (SpecFn) *)

RECURSIVE AllMembers(_)
\* The members of the bindings, binding by binding, each in its order.
AllMembers(bindings) ==
    IF bindings = <<>> THEN <<>>
    ELSE bindings[1].Members \o AllMembers(Tail(bindings))

\* The selection rule of section 4.4 for one member.
Selected(m, displayName, allowList) ==
    /\ HasPrefix(m, "user:")
    /\ ~Contains(m, displayName)
    /\ \A k \in 1..Len(allowList) : ~Contains(m, allowList[k])

Filtered == fnArgs.fn = "filterNonOrgMembers" /\ fnPhase \in {"filtered", "removed"}

\* C1: filterNonOrgMembers returns exactly the members of the bindings, in
\* binding order then member order and once per occurrence, that start with
\* "user:", do not contain the organization display name and contain no
\* allow-listed domain; on the example of the specification that is
\* ["user:eve@gmail.com"].
C1_FilterExact ==
    Filtered =>
        /\ fnOut.nonOrgMembers =
              SelectSeq(AllMembers(fnArgs.bindings),
                        LAMBDA m : Selected(m, fnArgs.organizationDisplayName, fnArgs.allowedDomains))
        /\ ( /\ fnArgs.organizationDisplayName = "example.com"
             /\ fnArgs.bindings = ExampleBindings
             /\ fnArgs.allowedDomains = ExampleAllowDomains ) => fnOut.nonOrgMembers = <<Eve>>

\* A diff that kept one member twice (it occurs in two bindings) while the
\* allow-list and the other tests dropped other members.
C1_Witness ==
    /\ Filtered
    /\ fnArgs.allowedDomains # <<>>
    /\ Len(fnOut.nonOrgMembers) < Len(AllMembers(fnArgs.bindings))
    /\ \E j, k \in 1..Len(fnOut.nonOrgMembers) : j < k /\ fnOut.nonOrgMembers[j] = fnOut.nonOrgMembers[k]

\* C2: once the diff has been removed from the policy it was computed from,
\* the diff of the resulting policy (same display name, same allow-list) is
\* empty.
C2_Idempotent ==
    (fnArgs.fn = "filterNonOrgMembers" /\ fnPhase = "removed") =>
        filterNonOrgMembers(fnArgs.organizationDisplayName, fnOut.policy.Bindings,
                            fnArgs.allowedDomains) = <<>>

\* A removal of two different members that left other members in the policy.
C2_Witness ==
    /\ fnArgs.fn = "filterNonOrgMembers"
    /\ fnPhase = "removed"
    /\ \E j, k \in 1..Len(fnOut.nonOrgMembers) : fnOut.nonOrgMembers[j] # fnOut.nonOrgMembers[k]
    /\ AllMembers(fnOut.policy.Bindings) # <<>>

\* C10: with an empty string in the allow-list, or with an empty organization
\* display name, filterNonOrgMembers selects no member of any policy.
C10_EmptyStringSelectsNothing ==
    ( /\ Filtered
      /\ \/ fnArgs.organizationDisplayName = ""
         \/ \E k \in 1..Len(fnArgs.allowedDomains) : fnArgs.allowedDomains[k] = "" )
    => fnOut.nonOrgMembers = <<>>

\* A diff computed with an empty string next to another domain in the
\* allow-list, on a policy that holds an external user no other test drops.
C10_Witness ==
    /\ Filtered
    /\ fnArgs.organizationDisplayName = "example.com"
    /\ fnArgs.allowedDomains = <<"gmail.com", "">>
    /\ \E k \in 1..Len(AllMembers(fnArgs.bindings)) : AllMembers(fnArgs.bindings)[k] = Mal

\* The innermost error of a chain, the one the wrappers were put around.
Cause(err) == <<err[Len(err)]>>

Undecodable(b) == b.json \in {"malformed", "mistyped"}

\* The organization name of the payload's finding when its category is recognized.
DerivedName(b) ==
    IF b.finding.category = "NON_ORG_IAM_MEMBER" THEN OrganizationName(b.finding.parent) ELSE ""

\* C5: ReadFinding fails with ErrUnmarshal on a payload that cannot be
\* decoded; otherwise with ErrValueNotFound when the category is not
\* recognized or the derived organization name is empty; otherwise it returns
\* a Required with that non-empty name. Never a value with an error, never an
\* empty OrganizationName.
C5_ReadFindingOutcomes ==
    (fnArgs.fn = "ReadFinding" /\ fnPhase = "read") =>
        LET b == fnArgs.b
            res == fnOut.result
        IN  /\ Undecodable(b) =>
                res.r = <<>> /\ res.err # Nil /\ Cause(res.err) = ErrUnmarshal
            /\ (~Undecodable(b) /\ DerivedName(b) = "") =>
                res.r = <<>> /\ res.err = ErrValueNotFound
            /\ (~Undecodable(b) /\ DerivedName(b) # "") =>
                res.r = <<[OrganizationName |-> DerivedName(b)]>> /\ res.err = Nil
            /\ ~(res.r # <<>> /\ res.err # Nil)
            /\ res.r # <<>> => res.r[1].OrganizationName # ""

\* A finding under a source of the organization was read into its Required.
C5_Witness ==
    /\ fnArgs.fn = "ReadFinding"
    /\ fnPhase = "read"
    /\ fnArgs.b.finding.parent = "organizations/1234/sources/5678"
    /\ fnOut.result.err = Nil
    /\ fnOut.result.r = <<[OrganizationName |-> KnownOrganization]>>

-----------------------------------------------------------------------------
(* Properties of Execute (Spec) *)

\* The indices of the calls of operation op in a call sequence.
CallsOf(calls, op) == {k \in 1..Len(calls) : calls[k].op = op}

\* C3: with the rule disabled Execute makes no collaborator call and returns
\* nil, whatever Required it was given.
C3_DisabledNoCalls ==
    ~conf.Enabled =>
        \A i \in Invocations :
            /\ inv[i].calls = <<>>
            /\ inv[i].pc \in {"start", "done"}
            /\ inv[i].pc = "done" => inv[i].err = Nil

\* Execute returned under a disabled rule, for a Required of either organization.
C3_Witness ==
    /\ ~conf.Enabled
    /\ \E i, j \in Invocations :
        /\ inv[i].pc = "done" /\ inv[i].required.OrganizationName = KnownOrganization
        /\ inv[j].pc = "done" /\ inv[j].required.OrganizationName = UnknownOrganization

\* C6: a failed policy fetch or update is returned as an error that wraps the
\* collaborator's error and names the organization in its context.
C6_FailureCarriesOrganization ==
    \A i \in Invocations :
        ( /\ inv[i].pc = "done"
          /\ inv[i].calls # <<>>
          /\ inv[i].calls[Len(inv[i].calls)].op \in {"PolicyOrganization", "RemoveMembersOrganization"}
          /\ ~inv[i].calls[Len(inv[i].calls)].ok )
        => /\ inv[i].err # Nil
           /\ Cause(inv[i].err) = ErrUnavailable
           /\ Contains(inv[i].err[1], inv[i].organization.Name)

\* C7: the update call is the third call of an invocation of an enabled rule,
\* after a successful Organization and a successful PolicyOrganization, and it
\* submits the policy that fetch returned with the diff of that policy; after
\* a failed Organization or PolicyOrganization Execute has returned an error
\* and made no update call.
C7_MutationAfterChecks ==
    \A i \in Invocations :
        LET calls == inv[i].calls IN
        /\ \A k \in CallsOf(calls, "RemoveMembersOrganization") :
            /\ conf.Enabled
            /\ k = 3
            /\ calls[1].op = "Organization" /\ calls[1].ok
            /\ calls[k - 1].op = "PolicyOrganization" /\ calls[k - 1].ok
            /\ calls[k].policy = calls[k - 1].policy
            /\ calls[k].remove =
                  SelectSeq(AllMembers(calls[k - 1].policy.Bindings),
                            LAMBDA m : Selected(m, orgDisplayName, conf.AllowDomains))
        /\ \A k \in 1..Len(calls) :
            (calls[k].op \in {"Organization", "PolicyOrganization"} /\ ~calls[k].ok) =>
                /\ inv[i].pc = "done"
                /\ inv[i].err # Nil
                /\ CallsOf(calls, "RemoveMembersOrganization") = {}

\* An update call that removes members, made after both lookups succeeded.
C7_Witness ==
    \E i \in Invocations :
        /\ CallsOf(inv[i].calls, "RemoveMembersOrganization") # {}
        /\ inv[i].membersToRemove # <<>>
        /\ inv[i].pc = "done"

\* The members of binding k of a policy, as a set.
MemberSet(policy, k) == {policy.Bindings[k].Members[j] : j \in 1..Len(policy.Bindings[k].Members)}

\* No binding of the organization policy gains a member in the step.
NoMemberGained ==
    /\ Len(orgPolicy'.Bindings) = Len(orgPolicy.Bindings)
    /\ \A k \in 1..Len(orgPolicy.Bindings) :
        /\ orgPolicy'.Bindings[k].Role = orgPolicy.Bindings[k].Role
        /\ MemberSet(orgPolicy', k) \subseteq MemberSet(orgPolicy, k)

\* C8: across the interleaved invocations of Execute no binding of the
\* organization policy ever gains a member, also when an invocation submits
\* a policy it fetched before another invocation's removal.
C8_MembersOnlyShrink == [][NoMemberGained]_vars

\* Two invocations fetched the same policy and both had their removal
\* accepted: the later of the two submitted a policy older than the stored one.
C8_Witness ==
    \E i, j \in Invocations :
        /\ i # j
        /\ inv[i].pc = "done" /\ inv[j].pc = "done"
        /\ inv[i].err = Nil /\ inv[j].err = Nil
        /\ inv[i].membersToRemove # <<>>
        /\ inv[i].policy = inv[j].policy
        /\ inv[i].policy # orgPolicy

\* C9: once Organization and PolicyOrganization have succeeded, Execute
\* returns after exactly one update call, also for an empty diff, and returns
\* nil exactly when that call succeeded.
C9_ExactlyOneUpdate ==
    \A i \in Invocations :
        LET calls == inv[i].calls IN
        ( /\ inv[i].pc = "done"
          /\ CallsOf(calls, "PolicyOrganization") # {}
          /\ \A k \in CallsOf(calls, "Organization") \cup CallsOf(calls, "PolicyOrganization") : calls[k].ok )
        => /\ Cardinality(CallsOf(calls, "RemoveMembersOrganization")) = 1
           /\ \A k \in CallsOf(calls, "RemoveMembersOrganization") : calls[k].ok <=> inv[i].err = Nil

\* Execute returned nil after an update call that carried an empty diff.
C9_Witness ==
    \E i \in Invocations :
        /\ inv[i].pc = "done"
        /\ inv[i].err = Nil
        /\ \E k \in CallsOf(inv[i].calls, "RemoveMembersOrganization") :
            inv[i].calls[k].remove = <<>> /\ inv[i].calls[k].ok

-----------------------------------------------------------------------------
(* Properties of the entry points (SpecEntry) *)

\* The handler ran without a parameter it requires.
MissingParameter ==
    \/ run.fn = "RevokeExternalGrantsFolders" /\ (env.folder_ids = "" \/ env.disallowed = "")
    \/ run.fn = "CloseBucket" /\ env.folder_ids = ""

ConfigurationErrors ==
    {Errorf("folder_ids environment variable not found"),
     Errorf("disallowed environment variable not found")}

\* A call on a collaborator: a method of the logger, or the cloud function
\* that drives the resource, storage and compute collaborators.
CollaboratorCall(c) == HasPrefix(c, "Logger.") \/ HasPrefix(c, "cloudfunctions.")

\* The handler got its logger client.
LoggerInitialized == \E k \in 1..Len(run.calls) : run.calls[k] # "clients.NewLogger"

\* C4: an entry point invoked without a required parameter (its clients
\* initializing) ends with a configuration error and has made no call on any
\* collaborator, the logger included.
C4_MissingParameterNoCalls ==
    (MissingParameter /\ LoggerInitialized) =>
        /\ run.err \in ConfigurationErrors
        /\ \A k \in 1..Len(run.calls) : ~CollaboratorCall(run.calls[k])

=============================================================================
